---- MODULE Spec2Model ----
(***************************************************************************)
(* The command-intake pipeline of the AI PC automation agent (src/main.py):*)
(* the two producers (on_text_submit, voice_listening_thread), the         *)
(* command_queue, the consumer process_commands, the remote classifier     *)
(* parse_command_with_ai with its response repair, the keyword classifier  *)
(* fallback_parse_command and the dispatcher execute_command; and the      *)
(* legacy assistant's execute_command (src/ai_pc_agent.py).                *)
(*                                                                         *)
(* A Python str is modelled as a sequence of one-character strings, so     *)
(* that lower(), split(), the substring tests, find/rfind, replace and the *)
(* JSON decoding are computed character by character.                      *)
(***************************************************************************)
EXTENDS Integers, Sequences, FiniteSets, TLC

\* ---------------------------------------------------------------------
\* The string literals of main.py, as sequences of characters
\* ---------------------------------------------------------------------

\* the keys of system_commands (main.py:46-65), the keys of a Command and of
\* its parameters, and the action unknown (main.py:317, 346-400, 405-412)
Key ==
    [ open_chrome |->
        <<"o","p","e","n","_","c","h","r","o","m","e">>,
      open_vscode |->
        <<"o","p","e","n","_","v","s","c","o","d","e">>,
      open_notepad |->
        <<"o","p","e","n","_","n","o","t","e","p","a","d">>,
      open_calculator |->
        <<"o","p","e","n","_","c","a","l","c","u","l","a","t","o","r">>,
      google_search |->
        <<"g","o","o","g","l","e","_","s","e","a","r","c","h">>,
      youtube_search |->
        <<"y","o","u","t","u","b","e","_","s","e","a","r","c","h">>,
      type_text |->
        <<"t","y","p","e","_","t","e","x","t">>,
      play_pause_media |->
        <<"p","l","a","y","_","p","a","u","s","e","_","m","e","d","i","a">>,
      next_tab |->
        <<"n","e","x","t","_","t","a","b">>,
      previous_tab |->
        <<"p","r","e","v","i","o","u","s","_","t","a","b">>,
      close_tab |->
        <<"c","l","o","s","e","_","t","a","b">>,
      new_tab |->
        <<"n","e","w","_","t","a","b">>,
      minimize_window |->
        <<"m","i","n","i","m","i","z","e","_","w","i","n","d","o","w">>,
      maximize_window |->
        <<"m","a","x","i","m","i","z","e","_","w","i","n","d","o","w">>,
      take_screenshot |->
        <<"t","a","k","e","_","s","c","r","e","e","n","s","h","o","t">>,
      lock_screen |->
        <<"l","o","c","k","_","s","c","r","e","e","n">>,
      open_file_explorer |->
        <<"o","p","e","n","_","f","i","l","e","_","e","x","p","l","o","r","e","r">>,
      volume_up |->
        <<"v","o","l","u","m","e","_","u","p">>,
      volume_down |->
        <<"v","o","l","u","m","e","_","d","o","w","n">>,
      mute_unmute |->
        <<"m","u","t","e","_","u","n","m","u","t","e">>,
      command |->
        <<"c","o","m","m","a","n","d">>,
      parameters |->
        <<"p","a","r","a","m","e","t","e","r","s">>,
      description |->
        <<"d","e","s","c","r","i","p","t","i","o","n">>,
      error |->
        <<"e","r","r","o","r">>,
      query |->
        <<"q","u","e","r","y">>,
      text |->
        <<"t","e","x","t">>,
      unknown |->
        <<"u","n","k","n","o","w","n">> ]

\* the trigger phrases of fallback_parse_command (main.py:345-397)
Trigger ==
    [ vs_code |->
        <<"v","s"," ","c","o","d","e">>,
      vscode |->
        <<"v","s","c","o","d","e">>,
      chrome |->
        <<"c","h","r","o","m","e">>,
      notepad |->
        <<"n","o","t","e","p","a","d">>,
      calculator |->
        <<"c","a","l","c","u","l","a","t","o","r">>,
      google |->
        <<"g","o","o","g","l","e">>,
      search |->
        <<"s","e","a","r","c","h">>,
      for |->
        <<"f","o","r">>,
      youtube |->
        <<"y","o","u","t","u","b","e">>,
      type |->
        <<"t","y","p","e">>,
      play |->
        <<"p","l","a","y">>,
      pause |->
        <<"p","a","u","s","e">>,
      screenshot |->
        <<"s","c","r","e","e","n","s","h","o","t">>,
      volume_up |->
        <<"v","o","l","u","m","e"," ","u","p">>,
      increase_volume |->
        <<"i","n","c","r","e","a","s","e"," ","v","o","l","u","m","e">>,
      volume_down |->
        <<"v","o","l","u","m","e"," ","d","o","w","n">>,
      decrease_volume |->
        <<"d","e","c","r","e","a","s","e"," ","v","o","l","u","m","e">>,
      mute |->
        <<"m","u","t","e">>,
      unmute |->
        <<"u","n","m","u","t","e">> ]

\* the default parameter values of fallback_parse_command (main.py:363, 375, 387)
Default ==
    [ AI |->
        <<"A","I">>,
      music |->
        <<"m","u","s","i","c">>,
      Hello_World |->
        <<"H","e","l","l","o"," ","W","o","r","l","d">> ]

\* the description and error texts of fallback_parse_command (main.py:346-400)
Message ==
    [ vscode |->
        <<"O","p","e","n","i","n","g"," ","V","i","s","u","a","l"," ","S","t","u","d","i","o"," ","C","o","d","e">>,
      chrome |->
        <<"O","p","e","n","i","n","g"," ","G","o","o","g","l","e"," ","C","h","r","o","m","e">>,
      notepad |->
        <<"O","p","e","n","i","n","g"," ","N","o","t","e","p","a","d">>,
      calculator |->
        <<"O","p","e","n","i","n","g"," ","C","a","l","c","u","l","a","t","o","r">>,
      google |->
        <<"S","e","a","r","c","h","i","n","g"," ","G","o","o","g","l","e"," ","f","o","r"," ">>,
      youtube |->
        <<"S","e","a","r","c","h","i","n","g"," ","Y","o","u","T","u","b","e"," ","f","o","r"," ">>,
      typing |->
        <<"T","y","p","i","n","g"," ">>,
      play |->
        <<"P","l","a","y","i","n","g"," ","o","r"," ","p","a","u","s","i","n","g"," ","m","e","d","i","a">>,
      screenshot |->
        <<"T","a","k","i","n","g"," ","a"," ","s","c","r","e","e","n","s","h","o","t">>,
      volume_up |->
        <<"I","n","c","r","e","a","s","i","n","g"," ","v","o","l","u","m","e">>,
      volume_down |->
        <<"D","e","c","r","e","a","s","i","n","g"," ","v","o","l","u","m","e">>,
      mute |->
        <<"M","u","t","i","n","g"," ","o","r"," ","u","n","m","u","t","i","n","g"," ","a","u","d","i","o">>,
      not_recognized |->
        <<"C","o","m","m","a","n","d"," ","n","o","t"," ","r","e","c","o","g","n","i","z","e","d">> ]

\* the character ` cannot occur in a TLA+ string: it is written as this atom
backtick == "BACKTICK"

\* the markers parse_command_with_ai removes (main.py:294, 310) and the JSON
\* literal null (main.py:316)
Marker ==
    [ fence |->
        <<backtick,backtick,backtick>>,
      fence_json |->
        <<backtick,backtick,backtick,"j","s","o","n">>,
      null |->
        <<"n","u","l","l">> ]


\* ---------------------------------------------------------------------
\* Python str operations used by main.py
\* ---------------------------------------------------------------------

\* the characters str.split() and str.strip() treat as white space
Whitespace == {" ", "\n", "\t"}

UpperCase ==
    <<"A","B","C","D","E","F","G","H","I","J","K","L","M",
      "N","O","P","Q","R","S","T","U","V","W","X","Y","Z">>

LowerCase ==
    <<"a","b","c","d","e","f","g","h","i","j","k","l","m",
      "n","o","p","q","r","s","t","u","v","w","x","y","z">>

lower_char(c) ==
    IF \E i \in DOMAIN UpperCase : UpperCase[i] = c
    THEN LowerCase[CHOOSE i \in DOMAIN UpperCase : UpperCase[i] = c]
    ELSE c

\* s.lower()
lower(s) == [i \in 1..Len(s) |-> lower_char(s[i])]

\* sub == s: the whole string instead of a part of it
str_equal(sub, s) == sub = s

\* sub in s
str_in(sub, s) ==
    \E i \in 0..(Len(s) - Len(sub)) : SubSeq(s, i + 1, i + Len(sub)) = sub

\* s.startswith(p), s.endswith(p)
startswith(s, p) == Len(p) <= Len(s) /\ SubSeq(s, 1, Len(p)) = p

endswith(s, p) == Len(p) <= Len(s) /\ SubSeq(s, Len(s) - Len(p) + 1, Len(s)) = p

\* s.lstrip(), s.rstrip(), s.strip()
lstrip(s) ==
    IF \A i \in 1..Len(s) : s[i] \in Whitespace THEN <<>>
    ELSE SubSeq(s, CHOOSE i \in 1..Len(s) :
                       s[i] \notin Whitespace /\ \A j \in 1..(i - 1) : s[j] \in Whitespace,
                Len(s))

rstrip(s) ==
    IF \A i \in 1..Len(s) : s[i] \in Whitespace THEN <<>>
    ELSE SubSeq(s, 1, CHOOSE i \in 1..Len(s) :
                          s[i] \notin Whitespace /\ \A j \in (i + 1)..Len(s) : s[j] \in Whitespace)

strip(s) == lstrip(rstrip(s))

\* the least index i >= from with s[i] in chars; Len(s) + 1 when there is none
next_in(s, from, chars) ==
    IF \E i \in from..Len(s) : s[i] \in chars
    THEN CHOOSE i \in from..Len(s) : s[i] \in chars /\ \A j \in from..(i - 1) : s[j] \notin chars
    ELSE Len(s) + 1

\* the least index i >= from with s[i] not in chars; Len(s) + 1 when there is none
next_not_in(s, from, chars) ==
    IF \E i \in from..Len(s) : s[i] \notin chars
    THEN CHOOSE i \in from..Len(s) : s[i] \notin chars /\ \A j \in from..(i - 1) : s[j] \in chars
    ELSE Len(s) + 1

\* s.split(): the maximal runs of non-white-space characters
RECURSIVE split_from(_, _)
split_from(s, from) ==
    LET start == next_not_in(s, from, Whitespace)
        end == next_in(s, start, Whitespace)
    IN  IF start > Len(s) THEN <<>>
        ELSE <<SubSeq(s, start, end - 1)>> \o split_from(s, end)

split(s) == split_from(s, 1)

\* s.split(c) for a one-character separator: empty pieces are kept
RECURSIVE split_on_from(_, _, _)
split_on_from(s, c, from) ==
    LET end == next_in(s, from, {c})
    IN  IF end > Len(s) THEN <<SubSeq(s, from, Len(s))>>
        ELSE <<SubSeq(s, from, end - 1)>> \o split_on_from(s, c, end + 1)

split_on(s, c) == split_on_from(s, c, 1)

\* sep.join(parts)
RECURSIVE join(_, _)
join(sep, parts) ==
    IF parts = <<>> THEN <<>>
    ELSE IF Len(parts) = 1 THEN parts[1]
    ELSE parts[1] \o sep \o join(sep, Tail(parts))

\* s.replace(old, ''): the occurrences of old removed left to right, not
\* overlapping
RECURSIVE remove_all(_, _)
remove_all(s, old) ==
    IF ~str_in(old, s) THEN s
    ELSE LET at == CHOOSE i \in 1..Len(s) :
                       /\ startswith(SubSeq(s, i, Len(s)), old)
                       /\ \A j \in 1..(i - 1) : ~startswith(SubSeq(s, j, Len(s)), old)
         IN  SubSeq(s, 1, at - 1) \o remove_all(SubSeq(s, at + Len(old), Len(s)), old)

\* s.find(c) and s.rfind(c): 0-based index, -1 when absent
find(s, c) ==
    IF \E i \in 1..Len(s) : s[i] = c
    THEN (CHOOSE i \in 1..Len(s) : s[i] = c /\ \A j \in 1..(i - 1) : s[j] # c) - 1
    ELSE -1

rfind(s, c) ==
    IF \E i \in 1..Len(s) : s[i] = c
    THEN (CHOOSE i \in 1..Len(s) : s[i] = c /\ \A j \in (i + 1)..Len(s) : s[j] # c) - 1
    ELSE -1

\* s[a:b] for 0 <= a, 0 <= b
slice(s, a, b) == SubSeq(s, a + 1, IF b < Len(s) THEN b ELSE Len(s))

\* ---------------------------------------------------------------------
\* Python values: str, None and dict (keys are str)
\* ---------------------------------------------------------------------
PyStr(s) == [t |-> "str", s |-> s]

PyNone == [t |-> "none"]

PyDict(d) == [t |-> "dict", d |-> d]

EmptyDict == PyDict(<<>>)

\* d.get(k, default)
dict_get(d, k, default) == IF k \in DOMAIN d.d THEN d.d[k] ELSE default

\* a test that only None fails
is_not_none(v) == v.t # "none"

\* bool(v) of a str, None or dict
truthy(v) ==
    CASE v.t = "str" -> v.s # <<>>
      [] v.t = "dict" -> DOMAIN v.d # {}
      [] OTHER -> FALSE

\* ---------------------------------------------------------------------
\* fallback_parse_command (main.py:340-400)
\* ---------------------------------------------------------------------

\* {"command": c, "parameters": p, "description": d}
Command(c, p, d) ==
    PyDict((Key.command :> PyStr(c)) @@ (Key.parameters :> p) @@ (Key.description :> PyStr(d)))

\* the loops of main.py:358-362, 370-374 and 382-386: the words that follow
\* the first word whose lower-case form is one of `triggers`
RECURSIVE words_after(_, _, _, _, _)
words_after(words, triggers, i, found, acc) ==
    IF i > Len(words) THEN acc
    ELSE IF found THEN words_after(words, triggers, i + 1, TRUE, Append(acc, words[i]))
    ELSE words_after(words, triggers, i + 1, lower(words[i]) \in triggers, acc)

\* the extraction without the default of main.py:363, 375, 387
extract_after_without_default(user_input, triggers, default) ==
    join(<<" ">>, words_after(split(user_input), triggers, 1, FALSE, <<>>))

extract_after(user_input, triggers, default) ==
    LET found_words == words_after(split(user_input), triggers, 1, FALSE, <<>>)
    IN  IF found_words # <<>> THEN join(<<" ">>, found_words) ELSE default

\* a fallback whose no-match result carries no error text
fallback_without_error(user_input) == PyDict(Key.command :> PyStr(Key.unknown))

\* a fallback that returns a dict that is no Command
fallback_without_command(user_input) == EmptyDict

fallback_parse_command(user_input) ==
    LET user_lower == lower(user_input)
        has(t) == str_in(t, user_lower)
    IN  IF has(Trigger.vs_code) \/ has(Trigger.vscode)
        THEN Command(Key.open_vscode, EmptyDict, Message.vscode)
        ELSE IF has(Trigger.chrome)
        THEN Command(Key.open_chrome, EmptyDict, Message.chrome)
        ELSE IF has(Trigger.notepad)
        THEN Command(Key.open_notepad, EmptyDict, Message.notepad)
        ELSE IF has(Trigger.calculator)
        THEN Command(Key.open_calculator, EmptyDict, Message.calculator)
        ELSE IF has(Trigger.google) /\ has(Trigger.search)
        THEN LET query == extract_after(user_input, {Trigger.search, Trigger.for, Trigger.google}, Default.AI)
             IN  Command(Key.google_search, PyDict(Key.query :> PyStr(query)), Message.google \o query)
        ELSE IF has(Trigger.youtube) /\ has(Trigger.search)
        THEN LET query == extract_after(user_input, {Trigger.search, Trigger.for, Trigger.youtube}, Default.music)
             IN  Command(Key.youtube_search, PyDict(Key.query :> PyStr(query)), Message.youtube \o query)
        ELSE IF has(Trigger.type)
        THEN LET text == extract_after(user_input, {Trigger.type}, Default.Hello_World)
             IN  Command(Key.type_text, PyDict(Key.text :> PyStr(text)), Message.typing \o text)
        ELSE IF has(Trigger.play) \/ has(Trigger.pause)
        THEN Command(Key.play_pause_media, EmptyDict, Message.play)
        ELSE IF has(Trigger.screenshot)
        THEN Command(Key.take_screenshot, EmptyDict, Message.screenshot)
        ELSE IF has(Trigger.volume_up) \/ has(Trigger.increase_volume)
        THEN Command(Key.volume_up, EmptyDict, Message.volume_up)
        ELSE IF has(Trigger.volume_down) \/ has(Trigger.decrease_volume)
        THEN Command(Key.volume_down, EmptyDict, Message.volume_down)
        ELSE IF has(Trigger.mute) \/ has(Trigger.unmute)
        THEN Command(Key.mute_unmute, EmptyDict, Message.mute)
        ELSE PyDict((Key.command :> PyStr(Key.unknown)) @@ (Key.error :> PyStr(Message.not_recognized)))

\* ---------------------------------------------------------------------
\* json.loads (main.py:314, 328), for texts made of objects, strings and
\* null; the modelled responses hold no digit, bracket or backslash
\* ---------------------------------------------------------------------
JsonSpace == {" ", "\n", "\t", "\r"}

JsonFail == [ok |-> FALSE, v |-> PyNone, i |-> 0]

JsonOk(v, i) == [ok |-> TRUE, v |-> v, i |-> i]

skip_ws(s, i) == next_not_in(s, i, JsonSpace)

\* the characters of a string up to its closing quote, s[i] being the first;
\* a raw control character inside a string is rejected (strict decoding)
json_string(s, i) ==
    LET close == next_in(s, i, {"\""})
    IN  IF close > Len(s) THEN JsonFail
        ELSE IF \E j \in i..(close - 1) : s[j] \in {"\n", "\t", "\r"} THEN JsonFail
        ELSE JsonOk(PyStr(SubSeq(s, i, close - 1)), close + 1)

dict_set(d, k, v) == [x \in (DOMAIN d) \cup {k} |-> IF x = k THEN v ELSE d[x]]

RECURSIVE json_value(_, _)
RECURSIVE json_members(_, _, _)

\* a value starting at s[i]
json_value(s, i) ==
    IF i > Len(s) THEN JsonFail
    ELSE IF s[i] = "{"
         THEN LET j == skip_ws(s, i + 1)
              IN  IF j <= Len(s) /\ s[j] = "}" THEN JsonOk(EmptyDict, j + 1)
                  ELSE json_members(s, j, <<>>)
    ELSE IF s[i] = "\"" THEN json_string(s, i + 1)
    ELSE IF startswith(SubSeq(s, i, Len(s)), Marker.null) THEN JsonOk(PyNone, i + 4)
    ELSE JsonFail

\* "key": value pairs separated by commas, up to the closing brace; a
\* repeated key keeps its last value
json_members(s, i, d) ==
    IF i > Len(s) \/ s[i] # "\"" THEN JsonFail
    ELSE LET key == json_string(s, i + 1)
             colon == skip_ws(s, key.i)
             val == json_value(s, skip_ws(s, colon + 1))
             next == skip_ws(s, val.i)
         IN  IF ~key.ok \/ colon > Len(s) \/ s[colon] # ":" THEN JsonFail
             ELSE IF ~val.ok \/ next > Len(s) THEN JsonFail
             ELSE IF s[next] = "}" THEN JsonOk(PyDict(dict_set(d, key.v.s, val.v)), next + 1)
             ELSE IF s[next] = "," THEN json_members(s, skip_ws(s, next + 1), dict_set(d, key.v.s, val.v))
             ELSE JsonFail

\* json.loads(s): ok is FALSE where it raises JSONDecodeError
json_loads(s) ==
    LET r == json_value(s, skip_ws(s, 1))
    IN  IF r.ok /\ skip_ws(s, r.i) > Len(s) THEN r ELSE JsonFail

\* ---------------------------------------------------------------------
\* parse_command_with_ai (main.py:233-338)
\* ---------------------------------------------------------------------

\* the loop of main.py:299-304 over the lines of a fenced response:
\* <<json_start, json_end>>, 0-based, -1 when not found
RECURSIVE fence_scan(_, _, _)
fence_scan(lines, i, json_start) ==
    IF i > Len(lines) THEN <<json_start, -1>>
    ELSE LET line == strip(lines[i])
             start == IF startswith(line, <<"{">>) THEN i - 1 ELSE json_start
         IN  IF endswith(line, <<"}">>) /\ start # -1
             THEN <<start, i - 1>>
             ELSE fence_scan(lines, i + 1, start)

\* main.py:294-307: the lines from json_start to json_end of a response
\* that starts with a code fence
strip_fence(ai_response) ==
    IF startswith(ai_response, Marker.fence)
    THEN LET lines == split_on(ai_response, "\n")
             found == fence_scan(lines, 1, -1)
         IN  IF found[1] # -1 /\ found[2] # -1
             THEN join(<<"\n">>, SubSeq(lines, found[1] + 1, found[2] + 1))
             ELSE ai_response
    ELSE ai_response

\* main.py:310
remove_markdown(ai_response) ==
    strip(remove_all(remove_all(ai_response, Marker.fence_json), Marker.fence))

\* main.py:316-317
handle_null_command(parsed_command) ==
    IF dict_get(parsed_command, Key.command, PyNone) = PyNone
    THEN PyDict(dict_set(parsed_command.d, Key.command, PyStr(Key.unknown)))
    ELSE parsed_command

\* main.py:322-331: the text from the first '{' to the last '}'
extract_json(ai_response) ==
    LET start_idx == find(ai_response, "{")
        end_idx == rfind(ai_response, "}") + 1
    IN  IF start_idx # -1 /\ end_idx # -1
        THEN json_loads(slice(ai_response, start_idx, end_idx))
        ELSE JsonFail

\* the try block of main.py:236-334; raised is TRUE where an exception
\* leaves it: generate_content raising, or .get applied to a decoded value
\* that is no dict
classify_remote(user_input, reply) ==
    IF reply.raises THEN [raised |-> TRUE, value |-> PyNone]
    ELSE LET ai_response == remove_markdown(strip_fence(strip(reply.text)))
             direct == json_loads(ai_response)
             repaired == extract_json(ai_response)
         IN  IF direct.ok
             THEN IF direct.v.t # "dict" THEN [raised |-> TRUE, value |-> PyNone]
                  ELSE [raised |-> FALSE, value |-> handle_null_command(direct.v)]
             ELSE IF repaired.ok THEN [raised |-> FALSE, value |-> repaired.v]
             ELSE [raised |-> FALSE, value |-> fallback_parse_command(user_input)]

\* parse_command_with_ai without the except clause of main.py:336
parse_without_except(user_input, reply) == classify_remote(user_input, reply)

\* main.py:233-338: the except clause of line 336 turns every exception of
\* the try block into the fallback's result
parse_command_with_ai(user_input, reply) ==
    LET r == classify_remote(user_input, reply)
    IN  IF r.raised
        THEN [raised |-> FALSE, value |-> fallback_parse_command(user_input)]
        ELSE r

\* ---------------------------------------------------------------------
\* The action registry (main.py:45-66) and its procedures (main.py:443-650)
\* ---------------------------------------------------------------------
Registry ==
    {Key.open_chrome, Key.open_vscode, Key.open_notepad, Key.open_calculator,
     Key.google_search, Key.youtube_search, Key.type_text, Key.play_pause_media,
     Key.next_tab, Key.previous_tab, Key.close_tab, Key.new_tab, Key.minimize_window,
     Key.maximize_window, Key.take_screenshot, Key.lock_screen, Key.open_file_explorer,
     Key.volume_up, Key.volume_down, Key.mute_unmute}

\* procedures that declare no parameter at all
declares_nothing(name) == {}

\* the parameter names a procedure declares after self (main.py:524, 532, 540)
declared_parameters(name) ==
    IF name \in {Key.google_search, Key.youtube_search} THEN {Key.query}
    ELSE IF name = Key.type_text THEN {Key.text}
    ELSE {}

\* the body of a procedure: every one wraps its OS call in try/except and
\* logs a failure instead of raising (main.py:445-453, 526-530, 542-546).
\* "done": the side effect happened; "failed": the error was logged.
\* query.replace / typewrite(text) raise inside the try when the value is no str.
run_procedure(name, parameters, os_ok) ==
    IF declared_parameters(name) # {}
       /\ (\E k \in declared_parameters(name) : parameters.d[k].t # "str")
    THEN "failed"
    ELSE IF os_ok THEN "done" ELSE "failed"

\* ---------------------------------------------------------------------
\* execute_command (main.py:402-440)
\* ---------------------------------------------------------------------

\* execute_body without the test of main.py:411-415
execute_body_without_unknown_check(command_data, registry) ==
    LET command == dict_get(command_data, Key.command, PyStr(<<>>))
        parameters == dict_get(command_data, Key.parameters, EmptyDict)
        returned(kind, invoked) == [exc |-> "none", kind |-> kind, invoked |-> invoked]
        raises(exc) == [exc |-> exc, kind |-> "none", invoked |-> {}]
    IN  IF ~registry.assigned THEN raises("AttributeError")
        ELSE IF command.t = "dict" THEN raises("TypeError")
        ELSE IF command.t # "str" \/ command.s \notin registry.keys
             THEN returned("not_implemented", {})
        ELSE IF truthy(parameters)
             THEN IF parameters.t = "dict"
                     /\ DOMAIN parameters.d = declared_parameters(command.s)
                  THEN returned("success", {command.s})
                  ELSE raises("TypeError")
        ELSE IF declared_parameters(command.s) = {}
             THEN returned("success", {command.s})
        ELSE raises("TypeError")

\* the try block (main.py:405-435). exc names the exception that leaves it
\* ("none": it returned); kind is the report that was logged; invoked is
\* the set of procedures called (empty or one name).
execute_body(command_data, registry) ==
    LET command == dict_get(command_data, Key.command, PyStr(<<>>))
        parameters == dict_get(command_data, Key.parameters, EmptyDict)
        returned(kind, invoked) == [exc |-> "none", kind |-> kind, invoked |-> invoked]
        raises(exc) == [exc |-> exc, kind |-> "none", invoked |-> {}]
    IN  IF command = PyStr(Key.unknown) THEN returned("unknown", {})
        ELSE IF ~registry.assigned THEN raises("AttributeError")
        ELSE IF command.t = "dict" THEN raises("TypeError")
        ELSE IF command.t # "str" \/ command.s \notin registry.keys
             THEN returned("not_implemented", {})
        ELSE IF truthy(parameters)
             THEN IF parameters.t = "dict"
                     /\ DOMAIN parameters.d = declared_parameters(command.s)
                  THEN returned("success", {command.s})
                  ELSE raises("TypeError")
        ELSE IF declared_parameters(command.s) = {}
             THEN returned("success", {command.s})
        ELSE raises("TypeError")

\* execute_command without the except clause of main.py:437
execute_without_except(command_data, registry) ==
    LET b == execute_body(command_data, registry)
    IN  [kind |-> b.kind, invoked |-> b.invoked, escaped |-> b.exc # "none"]

\* main.py:402-440: the except clause of line 437 reports every exception
\* of the try block as an error; nothing escapes
execute_command(command_data, registry) ==
    LET b == execute_body(command_data, registry)
    IN  IF b.exc # "none"
        THEN [kind |-> "error", invoked |-> b.invoked, escaped |-> FALSE]
        ELSE [kind |-> b.kind, invoked |-> b.invoked, escaped |-> FALSE]

\* ---------------------------------------------------------------------
\* The remote model's answers: JSON command objects in the format the
\* prompt asks for (main.py:265-276), laid out on one line or
\* pretty-printed, bare, inside a code fence or with commentary around
\* ---------------------------------------------------------------------
JStr(s) == [t |-> "str", s |-> s]

JNull == [t |-> "null"]

\* an object: its members <<key, value>> in the order they are written
JObj(members) == [t |-> "obj", m |-> members]

RECURSIVE spaces(_)
spaces(n) == IF n = 0 THEN <<>> ELSE <<" ">> \o spaces(n - 1)

RECURSIVE dumps(_, _, _)
RECURSIVE dumps_members(_, _, _, _)

\* the text of a JSON value: on one line, or one member per line with the
\* nesting depth as indentation
dumps(v, pretty, depth) ==
    CASE v.t = "str" -> <<"\"">> \o v.s \o <<"\"">>
      [] v.t = "null" -> Marker.null
      [] OTHER ->
           IF v.m = <<>> THEN <<"{", "}">>
           ELSE IF pretty
           THEN <<"{", "\n">> \o dumps_members(v.m, 1, pretty, depth + 1)
                \o <<"\n">> \o spaces(depth) \o <<"}">>
           ELSE <<"{">> \o dumps_members(v.m, 1, pretty, depth) \o <<"}">>

dumps_members(m, i, pretty, depth) ==
    LET member == (IF pretty THEN spaces(depth) ELSE <<>>)
                  \o <<"\"">> \o m[i][1] \o <<"\"", ":", " ">> \o dumps(m[i][2], pretty, depth)
    IN  IF i = Len(m) THEN member
        ELSE member \o (IF pretty THEN <<",", "\n">> ELSE <<",", " ">>)
             \o dumps_members(m, i + 1, pretty, depth)

n_open_spotify == <<"o","p","e","n","_","s","p","o","t","i","f","y">>

\* the members a response may hold
MemberCommands ==
    {<<Key.command, JStr(Key.open_chrome)>>, <<Key.command, JStr(Key.google_search)>>,
     <<Key.command, JStr(Key.type_text)>>, <<Key.command, JStr(Key.unknown)>>,
     <<Key.command, JStr(n_open_spotify)>>, <<Key.command, JNull>>,
     <<Key.command, JObj(<<>>)>>}

MemberParameters ==
    {<<Key.parameters, JObj(<<>>)>>,
     <<Key.parameters, JObj(<< <<Key.query, JStr(<<"a", "}", "b">>)>> >>)>>,
     <<Key.parameters, JObj(<< <<Key.text, JStr(<<"x">>)>> >>)>>}

MemberDescription == <<Key.description, JStr(<<"d">>)>>

\* command objects: the three keys in the prompt's order, or with
\* parameters last, or without a command key
ModelObjects ==
    {JObj(<<c, p, MemberDescription>>) : c \in MemberCommands, p \in MemberParameters}
    \cup {JObj(<<c, MemberDescription, p>>) : c \in MemberCommands, p \in MemberParameters}
    \cup {JObj(<<p, MemberDescription>>) : p \in MemberParameters}

\* has the object a parameter string value holding a closing brace?
has_brace_value(obj) ==
    \E i \in DOMAIN obj.m :
        /\ obj.m[i][1] = Key.parameters
        /\ \E j \in DOMAIN obj.m[i][2].m :
             /\ obj.m[i][2].m[j][2].t = "str"
             /\ str_in(<<"}">>, obj.m[i][2].m[j][2].s)

Wraps == {"bare", "fence", "fence_json", "before", "after", "brace_before", "brace_after"}

FenceWraps == {"fence", "fence_json"}

CommentaryWraps == {"before", "after", "brace_before", "brace_after"}

c_here == <<"H","e","r","e",":"," ">>
c_done == <<" ","d","o","n","e">>
c_brace_before == <<"{","o","k","}"," ">>
c_brace_after == <<" ",":","}">>

\* the response text around the object's text
wrap_text(wrap, json) ==
    CASE wrap = "fence" -> Marker.fence \o <<"\n">> \o json \o <<"\n">> \o Marker.fence
      [] wrap = "fence_json" -> Marker.fence_json \o <<"\n">> \o json \o <<"\n">> \o Marker.fence
      [] wrap = "before" -> c_here \o json
      [] wrap = "after" -> json \o c_done
      [] wrap = "brace_before" -> c_brace_before \o json
      [] wrap = "brace_after" -> json \o c_brace_after
      [] OTHER -> json

\* an answer of generate_content: it raised, or response.text; json, pretty
\* and wrap record how the text was built
Reply(obj, pretty, wrap) ==
    [raises |-> FALSE, text |-> wrap_text(wrap, dumps(obj, pretty, 0)),
     obj |-> obj, pretty |-> pretty, wrap |-> wrap]

ReplyRaises ==
    [raises |-> TRUE, text |-> <<>>, obj |-> JNull, pretty |-> FALSE, wrap |-> "bare"]

\* before the first call of generate_content
NoReply ==
    [raises |-> FALSE, text |-> <<>>, obj |-> JNull, pretty |-> FALSE, wrap |-> "none"]

\* every modelled answer
ModelReplies ==
    {ReplyRaises}
    \cup {Reply(obj, pretty, wrap) : obj \in ModelObjects, pretty \in BOOLEAN, wrap \in Wraps}

command_object(c) ==
    JObj(<< <<Key.command, JStr(c)>>, <<Key.parameters, JObj(<<>>)>>, MemberDescription>>)

\* the answers of the remote model in the intake loop
Replies ==
    {ReplyRaises,
     Reply(command_object(Key.open_chrome), FALSE, "bare"),
     Reply(command_object(n_open_spotify), FALSE, "bare")}

\* ---------------------------------------------------------------------
\* Bounds and input sets of the model
\* ---------------------------------------------------------------------

\* utterances put on command_queue over a run
MaxEnqueued == 2

\* voice_listening_thread instances started over a run
MaxVoiceThreads == 2

u_open_chrome == <<"o","p","e","n"," ","c","h","r","o","m","e">>
u_hello == <<"h","e","l","l","o">>
u_mute == <<"m","u","t","e">>

\* what the text entry holds when on_text_submit fires
EntryTexts == {<<>>, <<" ">>, <<" ">> \o u_open_chrome, u_hello}

\* what listen_for_voice returns: a transcript, or None (PyNone)
VoiceResults == {PyNone, PyStr(<<>>), PyStr(u_mute)}

\* ---------------------------------------------------------------------
\* State
\* ---------------------------------------------------------------------
VARIABLES
    command_queue,   \* self.command_queue (main.py:34): the utterances waiting
    is_listening,    \* self.is_listening (main.py:35)
    is_running,      \* self.is_running (main.py:36)
    system_commands, \* self.system_commands (main.py:45): assigned?, keys
    main_pc,         \* the main thread: "init", "mainloop", "finished", "exited"
    consumer_pc,     \* process_commands: "check", "get", "classify", "execute", "done", "killed"
    voice_pc,        \* each voice_listening_thread: "unborn", "check", "listen", "exit", "dead", "killed"
    user_input,      \* process_commands' user_input
    model_reply,     \* what generate_content did for user_input
    command_data,    \* process_commands' command_data
    report,          \* the last execute_command: what it was handed and reported
    calls,           \* how often each procedure of the registry was called
    effect,          \* the OS side effect of the last execute_command
    enqueued,        \* history: the utterances in the order they were put
    classified,      \* history: the utterances in the order they were classified
    dispatched       \* history: the utterances in the order they were dispatched

vars ==
    <<command_queue, is_listening, is_running, system_commands, main_pc,
      consumer_pc, voice_pc, user_input, model_reply, command_data, report,
      calls, effect, enqueued, classified, dispatched>>

VoiceThreads == 1..MaxVoiceThreads

NoReport == [command_data |-> PyNone, kind |-> "none", invoked |-> {}, escaped |-> FALSE]

pipeline_vars == <<user_input, model_reply, command_data, report, calls, effect,
                   classified, dispatched>>

\* the state when setup_gui has started the consumer thread (main.py:188-189)
\* and __init__ is about to assign system_commands (main.py:45)
Init ==
    /\ command_queue = <<>>
    /\ is_listening = FALSE
    /\ is_running = TRUE
    /\ system_commands = [assigned |-> FALSE, keys |-> {}]
    /\ main_pc = "init"
    /\ consumer_pc = "check"
    /\ voice_pc = [t \in VoiceThreads |-> "unborn"]
    /\ user_input = <<>>
    /\ model_reply = NoReply
    /\ command_data = PyNone
    /\ report = NoReport
    /\ calls = [n \in Registry |-> 0]
    /\ effect = "none"
    /\ enqueued = <<>>
    /\ classified = <<>>
    /\ dispatched = <<>>

\* self.command_queue.put(item)
put(item) ==
    /\ command_queue' = Append(command_queue, item)
    /\ enqueued' = Append(enqueued, item)

\* ---------------------------------------------------------------------
\* The main thread: __init__, the GUI callbacks, run
\* ---------------------------------------------------------------------

\* main.py:45-66
assign_system_commands ==
    /\ main_pc = "init"
    /\ system_commands' = [assigned |-> TRUE, keys |-> Registry]
    /\ main_pc' = "mainloop"
    /\ UNCHANGED <<command_queue, is_listening, is_running, consumer_pc, voice_pc,
                   enqueued>>
    /\ UNCHANGED pipeline_vars

\* an on_text_submit that could fire while __init__ is still running
on_text_submit_during_init ==
    /\ Len(enqueued) < MaxEnqueued
    /\ \E entry \in EntryTexts :
         LET text == strip(entry)
         IN  IF truthy(PyStr(text))
             THEN put(text)
             ELSE UNCHANGED <<command_queue, enqueued>>
    /\ UNCHANGED <<is_listening, is_running, system_commands, main_pc, consumer_pc,
                   voice_pc>>
    /\ UNCHANGED pipeline_vars

\* main.py:652-658
on_text_submit ==
    /\ main_pc = "mainloop"
    /\ Len(enqueued) < MaxEnqueued
    /\ \E entry \in EntryTexts :
         LET text == strip(entry)
         IN  IF truthy(PyStr(text))
             THEN put(text)
             ELSE UNCHANGED <<command_queue, enqueued>>
    /\ UNCHANGED <<is_listening, is_running, system_commands, main_pc, consumer_pc,
                   voice_pc>>
    /\ UNCHANGED pipeline_vars

\* main.py:660-668
toggle_voice_listening ==
    /\ main_pc = "mainloop"
    /\ IF ~is_listening
       THEN /\ \E t \in VoiceThreads : voice_pc[t] = "unborn"
            /\ is_listening' = TRUE
            /\ LET t == CHOOSE t \in VoiceThreads :
                          voice_pc[t] = "unborn" /\ \A o \in 1..(t - 1) : voice_pc[o] # "unborn"
               IN  voice_pc' = [voice_pc EXCEPT ![t] = "check"]
       ELSE /\ is_listening' = FALSE
            /\ UNCHANGED voice_pc
    /\ UNCHANGED <<command_queue, is_running, system_commands, main_pc, consumer_pc,
                   enqueued>>
    /\ UNCHANGED pipeline_vars

\* main.py:709-714: mainloop returns and the finally clause clears is_running
run_finally ==
    /\ main_pc = "mainloop"
    /\ is_running' = FALSE
    /\ main_pc' = "finished"
    /\ UNCHANGED <<command_queue, is_listening, system_commands, consumer_pc, voice_pc,
                   enqueued>>
    /\ UNCHANGED pipeline_vars

\* ---------------------------------------------------------------------
\* voice_listening_thread (main.py:670-683)
\* ---------------------------------------------------------------------

\* main.py:672: while self.is_listening
voice_check(t) ==
    /\ voice_pc[t] = "check"
    /\ voice_pc' = [voice_pc EXCEPT ![t] = IF is_listening THEN "listen" ELSE "exit"]
    /\ UNCHANGED <<command_queue, is_listening, is_running, system_commands, main_pc,
                   consumer_pc, enqueued>>
    /\ UNCHANGED pipeline_vars

\* main.py:674-677: listen_for_voice returns; a non-empty transcript is put
voice_capture(t) ==
    /\ voice_pc[t] = "listen"
    /\ \E voice_input \in VoiceResults :
         IF truthy(voice_input)
         THEN /\ Len(enqueued) < MaxEnqueued
              /\ put(voice_input.s)
         ELSE UNCHANGED <<command_queue, enqueued>>
    /\ voice_pc' = [voice_pc EXCEPT ![t] = "check"]
    /\ UNCHANGED <<is_listening, is_running, system_commands, main_pc, consumer_pc>>
    /\ UNCHANGED pipeline_vars

\* main.py:678-680: listen_for_voice raised; the loop is left
voice_error(t) ==
    /\ voice_pc[t] = "listen"
    /\ voice_pc' = [voice_pc EXCEPT ![t] = "exit"]
    /\ UNCHANGED <<command_queue, is_listening, is_running, system_commands, main_pc,
                   consumer_pc, enqueued>>
    /\ UNCHANGED pipeline_vars

\* main.py:682-683
voice_exit(t) ==
    /\ voice_pc[t] = "exit"
    /\ is_listening' = FALSE
    /\ voice_pc' = [voice_pc EXCEPT ![t] = "dead"]
    /\ UNCHANGED <<command_queue, is_running, system_commands, main_pc, consumer_pc,
                   enqueued>>
    /\ UNCHANGED pipeline_vars

\* ---------------------------------------------------------------------
\* process_commands (main.py:685-701)
\* ---------------------------------------------------------------------
producer_vars == <<is_listening, is_running, system_commands, main_pc, voice_pc>>

\* main.py:687: while self.is_running
consumer_check ==
    /\ consumer_pc = "check"
    /\ consumer_pc' = IF is_running THEN "get" ELSE "done"
    /\ UNCHANGED <<command_queue, enqueued>>
    /\ UNCHANGED producer_vars
    /\ UNCHANGED pipeline_vars

\* a queue that hands out the newest item
queue_get_newest(queue) ==
    [item |-> queue[Len(queue)], rest |-> SubSeq(queue, 1, Len(queue) - 1)]

\* a get that hands out the oldest item and leaves it on the queue
queue_peek(queue) == [item |-> Head(queue), rest |-> queue]

\* queue.Queue.get on a queue that is not empty: the oldest item leaves
queue_get(queue) == [item |-> Head(queue), rest |-> Tail(queue)]

\* main.py:690: get(timeout=0.1) returns an utterance
consumer_get ==
    /\ consumer_pc = "get"
    /\ command_queue # <<>>
    /\ user_input' = queue_get(command_queue).item
    /\ command_queue' = queue_get(command_queue).rest
    /\ consumer_pc' = "classify"
    /\ UNCHANGED <<model_reply, command_data, report, calls, effect, classified,
                   dispatched, enqueued>>
    /\ UNCHANGED producer_vars

\* main.py:698-699: get timed out on an empty queue (queue.Empty): continue
consumer_timeout ==
    /\ consumer_pc = "get"
    /\ command_queue = <<>>
    /\ consumer_pc' = "check"
    /\ UNCHANGED <<command_queue, enqueued>>
    /\ UNCHANGED producer_vars
    /\ UNCHANGED pipeline_vars

\* main.py:693: command_data = self.parse_command_with_ai(user_input), the
\* remote model answering with one of `replies`; an exception that escaped
\* would be logged by line 700 and the loop go on
classify_from(replies) ==
    /\ consumer_pc = "classify"
    /\ \E reply \in replies :
         LET r == parse_command_with_ai(user_input, reply)
         IN  /\ model_reply' = reply
             /\ command_data' = r.value
             /\ consumer_pc' = IF r.raised THEN "check" ELSE "execute"
    /\ classified' = Append(classified, user_input)
    /\ UNCHANGED <<command_queue, user_input, report, calls, effect, dispatched,
                   enqueued>>
    /\ UNCHANGED producer_vars

consumer_classify == classify_from(Replies)

\* a consumer that leaves its loop when a command was not executed
consumer_execute_stops_on_failure ==
    /\ consumer_pc = "execute"
    /\ \E os_ok \in BOOLEAN :
         LET r == execute_command(command_data, system_commands)
         IN  /\ report' = [command_data |-> command_data, kind |-> r.kind,
                            invoked |-> r.invoked, escaped |-> r.escaped]
             /\ calls' = [n \in Registry |-> IF n \in r.invoked THEN calls[n] + 1 ELSE calls[n]]
             /\ effect' = IF r.invoked = {} THEN "none"
                          ELSE run_procedure(CHOOSE n \in r.invoked : TRUE,
                                             dict_get(command_data, Key.parameters, EmptyDict),
                                             os_ok)
             /\ consumer_pc' = IF r.kind = "success" THEN "check" ELSE "done"
    /\ dispatched' = Append(dispatched, user_input)
    /\ UNCHANGED <<command_queue, user_input, model_reply, command_data, classified,
                   enqueued>>
    /\ UNCHANGED producer_vars

\* main.py:696: self.execute_command(command_data)
consumer_execute ==
    /\ consumer_pc = "execute"
    /\ \E os_ok \in BOOLEAN :
         LET r == execute_command(command_data, system_commands)
         IN  /\ report' = [command_data |-> command_data, kind |-> r.kind,
                            invoked |-> r.invoked, escaped |-> r.escaped]
             /\ calls' = [n \in Registry |-> IF n \in r.invoked THEN calls[n] + 1 ELSE calls[n]]
             /\ effect' = IF r.invoked = {} THEN "none"
                          ELSE run_procedure(CHOOSE n \in r.invoked : TRUE,
                                             dict_get(command_data, Key.parameters, EmptyDict),
                                             os_ok)
    /\ dispatched' = Append(dispatched, user_input)
    /\ consumer_pc' = "check"
    /\ UNCHANGED <<command_queue, user_input, model_reply, command_data, classified,
                   enqueued>>
    /\ UNCHANGED producer_vars

Next ==
    \/ assign_system_commands
    \/ on_text_submit
    \/ toggle_voice_listening
    \/ run_finally
    \/ \E t \in VoiceThreads : voice_check(t)
    \/ \E t \in VoiceThreads : voice_capture(t)
    \/ \E t \in VoiceThreads : voice_error(t)
    \/ \E t \in VoiceThreads : voice_exit(t)
    \/ consumer_check
    \/ consumer_get
    \/ consumer_timeout
    \/ consumer_classify
    \/ consumer_execute

Spec == Init /\ [][Next]_vars

\* process_commands runs in a thread of its own (main.py:188-189): it is
\* scheduled again and again, and the claim's premise is that every remote
\* call returns or raises
consumer_step ==
    \/ consumer_check
    \/ consumer_get
    \/ consumer_timeout
    \/ consumer_classify
    \/ consumer_execute

SpecLive == Spec /\ WF_vars(consumer_step)

\* main.py:716-724: agent.run() has returned, main() returns and the
\* interpreter exits. The consumer and the voice threads are daemon threads
\* (main.py:188, 665): they are not joined but stopped wherever they are.
interpreter_exit ==
    /\ main_pc = "finished"
    /\ main_pc' = "exited"
    /\ consumer_pc' = IF consumer_pc = "done" THEN "done" ELSE "killed"
    /\ voice_pc' = [t \in VoiceThreads |->
                      IF voice_pc[t] \in {"unborn", "dead"} THEN voice_pc[t] ELSE "killed"]
    /\ UNCHANGED <<command_queue, is_listening, is_running, system_commands, enqueued>>
    /\ UNCHANGED pipeline_vars

NextShutdown == Next \/ interpreter_exit

\* the agent up to the end of its process
SpecShutdown == Init /\ [][NextShutdown]_vars

\* ---------------------------------------------------------------------
\* The classifier and the dispatcher on one utterance: the consumer has
\* taken user_input off the queue; the remote model may answer anything
\* of ModelReplies
\* ---------------------------------------------------------------------
RemoteInputs == {u_open_chrome, u_hello}

InitRemote ==
    /\ command_queue = <<>>
    /\ is_listening = FALSE
    /\ is_running = TRUE
    /\ system_commands = [assigned |-> TRUE, keys |-> Registry]
    /\ main_pc = "mainloop"
    /\ consumer_pc = "classify"
    /\ voice_pc = [t \in VoiceThreads |-> "unborn"]
    /\ user_input \in RemoteInputs
    /\ model_reply = NoReply
    /\ command_data = PyNone
    /\ report = NoReport
    /\ calls = [n \in Registry |-> 0]
    /\ effect = "none"
    /\ enqueued = <<user_input>>
    /\ classified = <<>>
    /\ dispatched = <<>>

remote_classify == classify_from(ModelReplies)

NextRemote == remote_classify \/ consumer_execute

SpecRemote == InitRemote /\ [][NextRemote]_vars

\* ---------------------------------------------------------------------
\* fallback_parse_command on the utterances of up to MaxWords words of
\* Vocabulary, and on "search google for X" with X of up to MaxQueryWords
\* ---------------------------------------------------------------------
MaxWords == 2

MaxQueryWords == 1

w_python == <<"p","y","t","h","o","n">>
w_Search == <<"S","e","a","r","c","h">>
w_googlesearch == <<"g","o","o","g","l","e","s","e","a","r","c","h">>

Vocabulary == {Trigger.search, Trigger.google, Trigger.for, Trigger.youtube, Trigger.type, Trigger.chrome, w_python, w_Search,
               w_googlesearch}

WordSeqs(n) == UNION {[1..k -> Vocabulary] : k \in 0..n}

u_open_vs_code == <<"o","p","e","n"," ","v","s"," ","c","o","d","e">>

search_google_for == <<Trigger.search, Trigger.google, Trigger.for>>

FallbackInputs ==
    {join(<<" ">>, ws) : ws \in WordSeqs(MaxWords)}
    \cup {join(<<" ">>, search_google_for \o x) : x \in WordSeqs(MaxQueryWords) \ {<<>>}}
    \cup {u_open_vs_code, u_hello, u_mute}

InitFallback ==
    /\ command_queue = <<>>
    /\ is_listening = FALSE
    /\ is_running = TRUE
    /\ system_commands = [assigned |-> TRUE, keys |-> Registry]
    /\ main_pc = "mainloop"
    /\ consumer_pc = "fallback"
    /\ voice_pc = [t \in VoiceThreads |-> "unborn"]
    /\ user_input \in FallbackInputs
    /\ model_reply = NoReply
    /\ command_data = PyNone
    /\ report = NoReport
    /\ calls = [n \in Registry |-> 0]
    /\ effect = "none"
    /\ enqueued = <<user_input>>
    /\ classified = <<>>
    /\ dispatched = <<>>

\* command_data = self.fallback_parse_command(user_input) (main.py:334, 338)
fallback_classify ==
    /\ consumer_pc = "fallback"
    /\ command_data' = fallback_parse_command(user_input)
    /\ classified' = Append(classified, user_input)
    /\ consumer_pc' = "execute"
    /\ UNCHANGED <<command_queue, user_input, model_reply, report, calls, effect,
                   dispatched, enqueued>>
    /\ UNCHANGED producer_vars

NextFallback == fallback_classify \/ consumer_execute

SpecFallback == InitFallback /\ [][NextFallback]_vars

\* ---------------------------------------------------------------------
\* The legacy assistant (src/ai_pc_agent.py): listen() and execute_command
\* in the loop of lines 66-70. In SpecLegacy user_input holds `command`,
\* effect names the OS call execute_command made ("none" before any) and
\* command_data holds the string handed to it.
\* ---------------------------------------------------------------------

\* the string literals of execute_command (ai_pc_agent.py:32-55)
Legacy ==
    [ open |->
        <<"o","p","e","n">>,
      open_ |->
        <<"o","p","e","n"," ">>,
      close |->
        <<"c","l","o","s","e">>,
      close_ |->
        <<"c","l","o","s","e"," ">>,
      search |->
        <<"s","e","a","r","c","h">>,
      type |->
        <<"t","y","p","e">>,
      type_ |->
        <<"t","y","p","e"," ">>,
      exit |->
        <<"e","x","i","t">>,
      quit |->
        <<"q","u","i","t">>,
      goodbye |->
        <<"g","o","o","d","b","y","e">>,
      start_ |->
        <<"s","t","a","r","t"," ">>,
      taskkill_ |->
        <<"t","a","s","k","k","i","l","l"," ","/","i","m"," ">>,
      exe_f |->
        <<".","e","x","e"," ","/","f">>,
      google_url |->
        <<"h","t","t","p","s",":","/","/","w","w","w",".","g","o","o","g","l","e",".","c","o","m","/","s","e","a","r","c","h","?","q","=">> ]

\* what recognize_google returns (ai_pc_agent.py:21)
t_Open_Chrome == <<"O","p","e","n"," ","C","h","r","o","m","e">>
t_close_notepad == <<"c","l","o","s","e"," ","n","o","t","e","p","a","d">>
t_search_python == <<"s","e","a","r","c","h"," ","p","y","t","h","o","n">>
t_type_hi == <<"T","y","p","e"," ","h","i">>
t_shutdown == <<"s","h","u","t","d","o","w","n"," ","/","s">>

LegacyTranscripts ==
    {t_Open_Chrome, t_close_notepad, t_search_python, t_type_hi, t_shutdown,
     Legacy.exit, u_hello}

\* s.split(word, 1)[1]: what follows the first occurrence of word in s
after_first(s, word) ==
    LET i == CHOOSE i \in 0..(Len(s) - Len(word)) :
                 /\ SubSeq(s, i + 1, i + Len(word)) = word
                 /\ \A j \in 0..(i - 1) : SubSeq(s, j + 1, j + Len(word)) # word
    IN  SubSeq(s, i + Len(word) + 1, Len(s))

\* execute_command (ai_pc_agent.py:31-61): the OS call it makes and the
\* string it hands to it
legacy_execute_command(cmd) ==
    IF startswith(cmd, Legacy.open_)
    THEN [call |-> "os.system", arg |-> Legacy.start_ \o strip(after_first(cmd, Legacy.open))]
    ELSE IF startswith(cmd, Legacy.close_)
    THEN [call |-> "os.system",
          arg |-> Legacy.taskkill_ \o strip(after_first(cmd, Legacy.close)) \o Legacy.exe_f]
    ELSE IF startswith(cmd, Legacy.search)
    THEN [call |-> "webbrowser.open",
          arg |-> Legacy.google_url \o strip(after_first(cmd, Legacy.search))]
    ELSE IF startswith(cmd, Legacy.type_)
    THEN [call |-> "pyautogui.write", arg |-> strip(after_first(cmd, Legacy.type))]
    ELSE IF cmd \in {Legacy.exit, Legacy.quit, Legacy.goodbye}
    THEN [call |-> "exit", arg |-> <<>>]
    ELSE [call |-> "os.system", arg |-> cmd]

legacy_unchanged ==
    UNCHANGED <<command_queue, is_listening, is_running, system_commands, main_pc,
                voice_pc, model_reply, report, calls, enqueued>>

InitLegacy ==
    /\ command_queue = <<>>
    /\ is_listening = FALSE
    /\ is_running = TRUE
    /\ system_commands = [assigned |-> FALSE, keys |-> {}]
    /\ main_pc = "legacy"
    /\ consumer_pc = "legacy_listen"
    /\ voice_pc = [t \in VoiceThreads |-> "unborn"]
    /\ user_input = <<>>
    /\ model_reply = NoReply
    /\ command_data = PyNone
    /\ report = NoReport
    /\ calls = [n \in Registry |-> 0]
    /\ effect = "none"
    /\ enqueued = <<>>
    /\ classified = <<>>
    /\ dispatched = <<>>

\* ai_pc_agent.py:68, 15-22: command = listen() recognized a transcript
legacy_listen ==
    /\ consumer_pc = "legacy_listen"
    /\ Len(classified) < MaxEnqueued
    /\ \E transcript \in LegacyTranscripts :
         /\ user_input' = lower(transcript)
         /\ classified' = Append(classified, lower(transcript))
    /\ consumer_pc' = "legacy_execute"
    /\ UNCHANGED <<command_data, effect, dispatched>>
    /\ legacy_unchanged

\* ai_pc_agent.py:23-28, 69: recognition failed, listen() returns "" and
\* the loop listens again
legacy_listen_failed ==
    /\ consumer_pc = "legacy_listen"
    /\ user_input' = <<>>
    /\ UNCHANGED <<consumer_pc, command_data, effect, classified, dispatched>>
    /\ legacy_unchanged

\* ai_pc_agent.py:70: execute_command(command)
legacy_execute ==
    /\ consumer_pc = "legacy_execute"
    /\ LET r == legacy_execute_command(user_input)
       IN  /\ effect' = r.call
           /\ command_data' = PyStr(r.arg)
           /\ consumer_pc' = IF r.call = "exit" THEN "legacy_exit" ELSE "legacy_listen"
    /\ dispatched' = Append(dispatched, user_input)
    /\ UNCHANGED <<user_input, classified>>
    /\ legacy_unchanged

NextLegacy == legacy_listen \/ legacy_listen_failed \/ legacy_execute

SpecLegacy == InitLegacy /\ [][NextLegacy]_vars

\* ---------------------------------------------------------------------
\* Properties
\* ---------------------------------------------------------------------
IsPrefix(a, b) == Len(a) <= Len(b) /\ SubSeq(b, 1, Len(a)) = a

\* the action of a Command as execute_command reads it (main.py:405)
action_of(cmd) == dict_get(cmd, Key.command, PyStr(<<>>))

\* what json.loads gives for the object the model answered
decoded_object(reply) == json_loads(dumps(reply.obj, reply.pretty, 0)).v

\* the model answered and the answer has been classified
Answered == classified # <<>> /\ model_reply.wrap # "none" /\ ~model_reply.raises

\* the answered object is a command object as the prompt asks for one
\* (main.py:265-270): its command is a string
command_object_answered ==
    /\ Answered
    /\ \E i \in DOMAIN model_reply.obj.m :
         model_reply.obj.m[i][1] = Key.command /\ model_reply.obj.m[i][2].t = "str"

\* C1: for "search google for X", X a non-empty sequence of words,
\* fallback_parse_command returns google_search with parameters {query: X}.
C1_SearchGoogleForQuery ==
    LET words == split(user_input)
    IN  (/\ classified # <<>>
         /\ Len(words) > Len(search_google_for)
         /\ SubSeq(words, 1, Len(search_google_for)) = search_google_for)
        => /\ action_of(command_data) = PyStr(Key.google_search)
           /\ dict_get(command_data, Key.parameters, PyNone)
                = PyDict(Key.query :> PyStr(join(<<" ">>,
                      SubSeq(words, Len(search_google_for) + 1, Len(words)))))

\* C2: the consumer classifies and dispatches the utterances in the order
\* in which the producers put them on command_queue: what was dispatched is
\* a prefix of what was classified, which is a prefix of what was enqueued,
\* and what was enqueued and not yet taken is the queue.
C2_QueueOrdering ==
    /\ IsPrefix(dispatched, classified)
    /\ IsPrefix(classified, enqueued)
    /\ \/ enqueued = classified \o command_queue
       \/ consumer_pc = "classify" /\ enqueued = classified \o <<user_input>> \o command_queue

\* C2: a voice utterance and then a typed one were both dispatched
C2_Witness == dispatched = <<u_mute, u_hello>>

\* C3: when generate_content raises, parse_command_with_ai returns what
\* fallback_parse_command returns for the same input and no exception
\* reaches process_commands (the Command goes on to execute_command).
C3_RemoteFailureFallsBack ==
    (model_reply.raises /\ Len(classified) > Len(dispatched))
    => /\ consumer_pc = "execute"
       /\ command_data = fallback_parse_command(user_input)

\* C3: the remote call raised for "open chrome" and the fallback's
\* open_chrome is about to be dispatched
C3_Witness ==
    /\ model_reply.raises
    /\ consumer_pc = "execute"
    /\ user_input = u_open_chrome
    /\ action_of(command_data) = PyStr(Key.open_chrome)

\* C4: a JSON command object inside a code fence yields the same Command as
\* the object alone.
C4_FenceIdempotent ==
    (command_object_answered /\ model_reply.wrap \in FenceWraps)
    => command_data
         = parse_command_with_ai(user_input,
                                 Reply(model_reply.obj, model_reply.pretty, "bare")).value

\* C5: when a parameter string value of the answered object holds a '}',
\* the Command returned is the one decoded from the whole object.
C5_NestedBrace ==
    (command_object_answered /\ has_brace_value(model_reply.obj))
    => command_data = decoded_object(model_reply)

\* C6: when commentary surrounds the answered object, the Command returned
\* is the one decoded from the object, not the fallback's.
C6_CommentaryTolerance ==
    (command_object_answered /\ model_reply.wrap \in CommentaryWraps)
    => command_data = decoded_object(model_reply)

\* C7: for a Command whose action is no key of system_commands,
\* execute_command returns normally with a failure report ("not
\* implemented" for any name but unknown), calls no procedure and lets no
\* exception out.
C7_UnregisteredNeverRaises ==
    (/\ Len(dispatched) > 0
     /\ ~(/\ action_of(report.command_data).t = "str"
          /\ action_of(report.command_data).s \in system_commands.keys))
    => /\ ~report.escaped
       /\ report.invoked = {}
       /\ effect = "none"
       /\ report.kind \in {"unknown", "not_implemented", "error"}
       /\ (/\ action_of(report.command_data).t = "str"
           /\ action_of(report.command_data).s # Key.unknown)
          => report.kind = "not_implemented"

\* C7: open_spotify was handed to execute_command and reported as not
\* implemented
C7_Witness ==
    /\ report.kind = "not_implemented"
    /\ action_of(report.command_data) = PyStr(n_open_spotify)

\* C8: execute_command on a Command with action unknown reports the failure
\* and calls no procedure: every call count is unchanged.
C8_UnknownInvokesNothing ==
    [][(/\ consumer_pc = "execute"
        /\ consumer_pc' = "check"
        /\ action_of(command_data) = PyStr(Key.unknown))
       => /\ calls' = calls
          /\ report'.kind = "unknown"
          /\ report'.invoked = {}
          /\ ~report'.escaped
          /\ effect' = "none"]_vars

\* C8: an unknown Command was handed to execute_command
C8_Witness ==
    /\ report.kind = "unknown"
    /\ action_of(report.command_data) = PyStr(Key.unknown)
    /\ \A n \in Registry : calls[n] = 0

\* the answered object's command is null or missing
null_or_missing_command(obj) ==
    \/ \A i \in DOMAIN obj.m : obj.m[i][1] # Key.command
    \/ \E i \in DOMAIN obj.m : obj.m[i][1] = Key.command /\ obj.m[i][2] = JNull

\* C9: a null or missing command in the model's object is normalized to
\* unknown on every path that returns a Command decoded from the response.
C9_NullCommandNormalized ==
    (Answered /\ null_or_missing_command(model_reply.obj))
    => \/ action_of(command_data) = PyStr(Key.unknown)
       \/ command_data = fallback_parse_command(user_input)

\* C10: every Command handed to execute_command has an action that is
\* unknown or a key of system_commands.
C10_DispatchedActionRegistered ==
    consumer_pc = "execute"
    => /\ action_of(command_data).t = "str"
       /\ action_of(command_data).s \in Registry \cup {Key.unknown}

\* C11: every utterance taken off command_queue is classified once and
\* dispatched once: the utterances put are those waiting, the one in hand
\* and those classified, each counted once; those classified are those
\* dispatched and the one in hand; the consumer puts nothing back.
C11_ExactlyOnce ==
    /\ Len(enqueued) = Len(command_queue) + Len(classified)
                         + (IF consumer_pc = "classify" THEN 1 ELSE 0)
    /\ Len(classified) = Len(dispatched) + (IF consumer_pc = "execute" THEN 1 ELSE 0)
    /\ Len(enqueued) <= MaxEnqueued

\* C11: two utterances were dispatched, neither invoked a procedure, and
\* the queue is empty
C11_Witness ==
    /\ Len(dispatched) = 2
    /\ \A n \in Registry : calls[n] = 0
    /\ command_queue = <<>>
    /\ consumer_pc = "get"

\* C12: every Command the classifier stage returns has a command, a
\* parameters mapping and a description.
C12_SameStructure ==
    classified # <<>>
    => /\ command_data.t = "dict"
       /\ {Key.command, Key.parameters, Key.description} \subseteq DOMAIN command_data.d
       /\ command_data.d[Key.parameters].t = "dict"

\* one of the conditions of main.py:345-397 holds for the utterance
matches_trigger(utterance) ==
    LET has(t) == str_in(t, lower(utterance))
    IN  \/ \E t \in {Trigger.vs_code, Trigger.vscode, Trigger.chrome, Trigger.notepad,
                     Trigger.calculator, Trigger.type, Trigger.play, Trigger.pause,
                     Trigger.screenshot, Trigger.volume_up, Trigger.increase_volume,
                     Trigger.volume_down, Trigger.decrease_volume, Trigger.mute,
                     Trigger.unmute} : has(t)
        \/ has(Trigger.google) /\ has(Trigger.search)
        \/ has(Trigger.youtube) /\ has(Trigger.search)

\* C13: for an utterance with no trigger phrase fallback_parse_command
\* returns the action unknown and an error string that is not empty.
C13_NoTriggerUnknown ==
    (classified # <<>> /\ ~matches_trigger(user_input))
    => /\ action_of(command_data) = PyStr(Key.unknown)
       /\ dict_get(command_data, Key.error, PyNone).t = "str"
       /\ dict_get(command_data, Key.error, PyNone).s # <<>>

\* C13: "google python" (google without search) was classified as unknown
C13_Witness ==
    /\ consumer_pc = "execute"
    /\ user_input = join(<<" ">>, <<Trigger.google, w_python>>)
    /\ action_of(command_data) = PyStr(Key.unknown)

\* C14: when the procedure invoked for a Command fails (its OS call
\* raised), execute_command reports a failure, not a success, and the
\* consumer goes back to the head of its loop.
C14_ProcedureFailureReported ==
    (Len(dispatched) > 0 /\ report.invoked # {} /\ effect = "failed")
    => /\ report.kind \in {"error", "not_implemented", "unknown"}
       /\ ~report.escaped
       /\ consumer_pc # "done" \/ ~is_running

\* the parameter an action needs: query for the two searches, text for
\* type_text
required_parameter(name) ==
    IF name \in {Key.google_search, Key.youtube_search} THEN {Key.query}
    ELSE IF name = Key.type_text THEN {Key.text}
    ELSE {}

\* the Command names a registered action that needs a parameter, and its
\* parameters are empty or lack that key
lacks_required_parameter(cmd) ==
    LET parameters == dict_get(cmd, Key.parameters, EmptyDict)
    IN  /\ action_of(cmd).t = "str"
        /\ action_of(cmd).s \in Registry
        /\ required_parameter(action_of(cmd).s) # {}
        /\ \/ ~truthy(parameters)
           \/ /\ parameters.t = "dict"
              /\ ~(required_parameter(action_of(cmd).s) \subseteq DOMAIN parameters.d)

\* C15: for a registered action that needs a parameter, with parameters
\* empty or lacking the key, execute_command reports a failure, the side
\* effect does not happen and no exception escapes.
C15_MissingParameterFails ==
    (Len(dispatched) > 0 /\ lacks_required_parameter(report.command_data))
    => /\ report.kind = "error"
       /\ report.invoked = {}
       /\ effect = "none"
       /\ \A n \in Registry : calls[n] = 0
       /\ ~report.escaped

\* C15: google_search was dispatched with parameters {"text": "x"}
C15_Witness ==
    /\ Len(dispatched) > 0
    /\ action_of(report.command_data) = PyStr(Key.google_search)
    /\ dict_get(report.command_data, Key.parameters, PyNone) = PyDict(Key.text :> PyStr(<<"x">>))
    /\ report.kind = "error"

\* C16: neither producer puts the empty string on command_queue: no
\* utterance ever put, and none waiting, is empty.
C16_EmptyNeverEnqueued ==
    /\ \A i \in DOMAIN enqueued : enqueued[i] # <<>>
    /\ \A i \in DOMAIN command_queue : command_queue[i] # <<>>

\* C16: the text producer and the voice producer have both put an utterance
C16_Witness ==
    /\ enqueued = <<u_open_chrome, u_mute>>
    /\ command_queue = enqueued

C19_OpenVsCode ==
    (user_input = u_open_vs_code /\ classified # <<>>)
    => /\ action_of(command_data) = PyStr(Key.open_vscode)
       /\ dict_get(command_data, Key.parameters, PyNone) = EmptyDict
       /\ dispatched # <<>>
          => /\ report.command_data = command_data
             /\ report.kind = "success"
             /\ report.invoked = {Key.open_vscode}
             /\ calls = [n \in Registry |-> IF n = Key.open_vscode THEN 1 ELSE 0]

\* C19: "open vs code" was dispatched and the VS Code procedure ran
C19_Witness ==
    /\ user_input = u_open_vs_code
    /\ dispatched = <<u_open_vs_code>>
    /\ calls[Key.open_vscode] = 1
    /\ effect = "done"

\* the text ai_pc_agent.py's execute_command knows an action for
legacy_known(cmd) ==
    \/ \E p \in {Legacy.open_, Legacy.close_, Legacy.search, Legacy.type_} : startswith(cmd, p)
    \/ cmd \in {Legacy.exit, Legacy.quit, Legacy.goodbye}

\* C20: the action set is a fixed allowlist in main.py and in
\* ai_pc_agent.py: a side effect comes only from the one registered
\* procedure the Command names, and text that matches no known action is
\* rejected, not executed.
C20_FixedAllowlist ==
    /\ effect \in {"done", "failed"}
       => /\ action_of(report.command_data).t = "str"
          /\ action_of(report.command_data).s \in Registry
          /\ report.invoked = {action_of(report.command_data).s}
    /\ (main_pc = "legacy" /\ dispatched # <<>>
          /\ ~legacy_known(dispatched[Len(dispatched)]))
       => effect # "os.system"

\* C21: whatever the sequence of toggle_voice_listening clicks, at most one
\* voice_listening_thread is capturing (inside listen_for_voice) at a time.
C21_OneVoiceTask ==
    Cardinality({t \in VoiceThreads : voice_pc[t] = "listen"}) <= 1

\* C22: each flag has one writer after startup: is_listening is changed
\* only by the main thread's toggle_voice_listening, never by a step of a
\* voice_listening_thread, and is_running only by run.
C22_SingleWriter ==
    [][/\ is_listening' # is_listening
          => ~\E t \in VoiceThreads : voice_pc[t] = "exit" /\ voice_pc'[t] = "dead"
       /\ is_running' # is_running
          => main_pc = "mainloop" /\ main_pc' = "finished"]_vars

\* the first voice thread was running when toggle_voice_listening cleared
\* is_listening: a later thread exists, which only a click on a cleared
\* flag starts, and before any later thread existed only that toggle or
\* the first thread's own exit could clear the flag
first_thread_toggled_off ==
    /\ voice_pc[1] \in {"check", "listen"}
    /\ \E u \in VoiceThreads : u > 1 /\ voice_pc[u] # "unborn"

\* C23: once toggle_voice_listening has cleared is_listening, the voice
\* thread that was running finishes at most the capture it is in and starts
\* no further one: it never passes the loop test again, neither while the
\* flag is still cleared nor after a later click has set it.
C23_ToggleOffStopsCaptures ==
    [][/\ \A t \in VoiceThreads :
            (~is_listening /\ voice_pc[t] = "check") => voice_pc'[t] # "listen"
       /\ (first_thread_toggled_off /\ voice_pc[1] = "check")
            => voice_pc'[1] # "listen"]_vars

\* C24: an utterance that contains "google" and "search" is classified as
\* google_search, and one that contains "youtube" and "search" (and not
\* "google") as youtube_search, whatever single-word trigger its query
\* holds.
C24_SearchRulesFirst ==
    LET has(t) == str_in(t, lower(user_input))
    IN  classified # <<>>
        => /\ (has(Trigger.google) /\ has(Trigger.search))
                => action_of(command_data) = PyStr(Key.google_search)
           /\ (has(Trigger.youtube) /\ has(Trigger.search) /\ ~has(Trigger.google))
                => action_of(command_data) = PyStr(Key.youtube_search)

\* C25: once is_running is false, process_commands polls the queue at most
\* once more (from the loop head it leaves the loop) and a classification
\* or dispatch in flight is finished, never abandoned.
C25_ShutdownFinishesInFlight ==
    [][/\ (~is_running /\ consumer_pc = "check") => consumer_pc' # "get"
       /\ consumer_pc \in {"classify", "execute"}
            => consumer_pc' \in {"classify", "execute", "check"}]_vars

\* no word follows the first word of the utterance that is one of
\* `triggers` (or no word is one)
no_words_follow(utterance, triggers) ==
    LET words == split(utterance)
    IN  \A i \in DOMAIN words :
            (/\ lower(words[i]) \in triggers
             /\ \A j \in 1..(i - 1) : lower(words[j]) \notin triggers)
            => i = Len(words)

\* the string parameter `key` of a Command
parameter_of(cmd, key) == dict_get(dict_get(cmd, Key.parameters, EmptyDict), key, PyNone)

\* C26: every google_search / youtube_search Command of the fallback has a
\* query that is not empty and every type_text Command a text that is not
\* empty; when no words follow the trigger word it is the default ("AI",
\* "music", "Hello World").
C26_NoEmptyParameter ==
    (classified # <<>> /\ consumer_pc = "execute")
    => /\ action_of(command_data) = PyStr(Key.google_search)
          => /\ truthy(parameter_of(command_data, Key.query))
             /\ no_words_follow(user_input, {Trigger.search, Trigger.for, Trigger.google})
                  => parameter_of(command_data, Key.query) = PyStr(Default.AI)
       /\ action_of(command_data) = PyStr(Key.youtube_search)
          => /\ truthy(parameter_of(command_data, Key.query))
             /\ no_words_follow(user_input, {Trigger.search, Trigger.for, Trigger.youtube})
                  => parameter_of(command_data, Key.query) = PyStr(Default.music)
       /\ action_of(command_data) = PyStr(Key.type_text)
          => /\ truthy(parameter_of(command_data, Key.text))
             /\ no_words_follow(user_input, {Trigger.type})
                  => parameter_of(command_data, Key.text) = PyStr(Default.Hello_World)

\* C26: "googlesearch" holds both keywords and no trigger word: the
\* query is the default "AI"
C26_Witness ==
    /\ consumer_pc = "execute"
    /\ user_input = w_googlesearch
    /\ action_of(command_data) = PyStr(Key.google_search)
    /\ parameter_of(command_data, Key.query) = PyStr(Default.AI)

\* C27: the consumer thread runs before system_commands is assigned, but
\* no utterance is in its hands (being classified or dispatched) before
\* the assignment, and system_commands never changes once assigned.
C27_RegistryReadyBeforeDispatch ==
    [][/\ consumer_pc' \in {"classify", "execute"}
            => system_commands.assigned /\ system_commands.keys = Registry
       /\ system_commands.assigned => system_commands' = system_commands]_vars

\* C27: the first utterance was dispatched to a registered procedure
C27_Witness ==
    /\ main_pc = "mainloop"
    /\ Len(dispatched) = 1
    /\ consumer_pc = "check"
    /\ report.kind = "success"
    /\ report.invoked \subseteq system_commands.keys

====
